---- MODULE Spec2Model ----
(***************************************************************************)
(* The paginated-query tool of the MongoDB MCP server (src/src/index.ts):  *)
(* the handler's steps between its two await points, the predicate it      *)
(* builds, the fetch the store answers and the page it shapes.             *)
(***************************************************************************)
EXTENDS Integers, Sequences, FiniteSets, TLC

(***************************************************************************)
(* Bounds of the model.                                                    *)
(***************************************************************************)
MaxDocs == 2
MaxSeen == 3
MaxWrites == 1
MaxSignals == 2

(***************************************************************************)
(* Values.  A value is a tag and a number.  The three string tags are all  *)
(* JavaScript strings: "str" is a literal (0 is the empty string, 1 is     *)
(* "not-an-id", 2 is "asc", 3 is "orders", 4 is "nope", 5 is              *)
(* "my orders"), "hexstr" n is the 24-hex-character text of ObjectId n     *)
(* and "isostr" n is the ISO-8601 text of Date n.                          *)
(***************************************************************************)
V(t, n) == [t |-> t, n |-> n]
Undef == V("undefined", 0)
Null == V("null", 0)
Num(n) == V("num", n)
Str(n) == V("str", n)
HexStr(n) == V("hexstr", n)
IsoStr(n) == V("isostr", n)
Oid(n) == V("oid", n)
DateV(n) == V("date", n)

StringTags == {"str", "hexstr", "isostr"}

\* JavaScript truthiness, as `lastId && lastValue` evaluates it.
Truthy(v) ==
    CASE v.t \in {"undefined", "null"} -> FALSE
      [] v.t = "num" -> v.n # 0
      [] v.t = "str" -> v.n # 0
      [] v.t = "bool" -> v.n # 0
      [] OTHER -> TRUE

\* JSON.stringify of one value: a Date becomes its ISO string, an ObjectId
\* its hex string; an undefined property is left out (stays Undef).
ToJSON(v) ==
    CASE v.t = "date" -> IsoStr(v.n)
      [] v.t = "oid" -> HexStr(v.n)
      [] OTHER -> v

\* new ObjectId(id) inside try/catch: the ObjectId for a 24-hex string,
\* null for any other string.
safeObjectId(id) == IF id.t = "hexstr" THEN Oid(id.n) ELSE Null

(***************************************************************************)
(* Documents are functions from field names to values; a field a document  *)
(* does not have reads as undefined.                                       *)
(***************************************************************************)
Fields == {"_id", "f"}
Doc(k, v) == [fld \in Fields |-> IF fld = "_id" THEN Oid(k) ELSE v]
GetField(doc, name) == IF name \in DOMAIN doc THEN doc[name] ELSE Undef
IdOf(doc) == doc["_id"].n

DocValues == {Num(0), Num(1), Str(0), DateV(1)}
Ids == 1..MaxDocs

(***************************************************************************)
(* The store's comparison order (BSON): null and missing, then numbers,    *)
(* strings, ObjectIds, booleans, dates.  $gt and $lt compare only within   *)
(* one type bracket.                                                       *)
(***************************************************************************)
Bracket(v) ==
    CASE v.t \in {"undefined", "null"} -> 1
      [] v.t = "num" -> 2
      [] v.t \in StringTags -> 3
      [] v.t = "oid" -> 4
      [] v.t = "bool" -> 5
      [] v.t = "date" -> 6

SubRank(v) ==
    CASE v.t = "hexstr" -> 1
      [] v.t = "isostr" -> 2
      [] OTHER -> 0

\* -1, 0 or 1 as a sorts before, with or after b.
BsonCompare(a, b) ==
    IF Bracket(a) # Bracket(b) THEN (IF Bracket(a) < Bracket(b) THEN -1 ELSE 1)
    ELSE IF Bracket(a) = 1 THEN 0
    ELSE IF SubRank(a) # SubRank(b) THEN (IF SubRank(a) < SubRank(b) THEN -1 ELSE 1)
    ELSE IF a.n < b.n THEN -1
    ELSE IF a.n > b.n THEN 1
    ELSE 0

(***************************************************************************)
(* Query predicates: {} , a comparison leaf on one field, $and, $or.       *)
(***************************************************************************)
EmptyFilter == [op |-> "{}", field |-> "", value |-> Undef, args |-> <<>>]
Leaf(op, field, value) == [op |-> op, field |-> field, value |-> value, args |-> <<>>]
AndOf(args) == [op |-> "$and", field |-> "", value |-> Undef, args |-> args]
OrOf(args) == [op |-> "$or", field |-> "", value |-> Undef, args |-> args]

RECURSIVE Matches(_, _)
Matches(doc, p) ==
    CASE p.op = "{}" -> TRUE
      [] p.op = "$eq" -> BsonCompare(GetField(doc, p.field), p.value) = 0
      [] p.op = "$gt" ->
            /\ Bracket(GetField(doc, p.field)) = Bracket(p.value)
            /\ BsonCompare(GetField(doc, p.field), p.value) = 1
      [] p.op = "$lt" ->
            /\ Bracket(GetField(doc, p.field)) = Bracket(p.value)
            /\ BsonCompare(GetField(doc, p.field), p.value) = -1
      [] p.op = "$and" -> \A i \in 1..Len(p.args) : Matches(doc, p.args[i])
      [] p.op = "$or" -> \E i \in 1..Len(p.args) : Matches(doc, p.args[i])

(***************************************************************************)
(* Sort specifications: an ordered list of <<field, direction>>.  The     *)
(* driver's cursor.sort takes 1, -1 and the texts "asc", "desc", ... as    *)
(* directions and throws on anything else.                                 *)
(***************************************************************************)
AscText == Str(2)
SortAccepted(keys) == \A i \in 1..Len(keys) : keys[i][2] \in {Num(1), Num(-1), AscText}
StoreDirection(dir) == IF dir \in {Num(1), AscText} THEN 1 ELSE -1

RECURSIVE CompareBySort(_, _, _, _)
CompareBySort(d1, d2, keys, i) ==
    IF i > Len(keys) THEN 0
    ELSE LET c == BsonCompare(GetField(d1, keys[i][1]), GetField(d2, keys[i][1]))
         IN IF c = 0 THEN CompareBySort(d1, d2, keys, i + 1)
            ELSE IF StoreDirection(keys[i][2]) = 1 THEN c ELSE -c

\* All orders in which the store may return the documents of S: every
\* arrangement that respects the sort keys.  Documents the keys do not
\* separate come in an order the store does not specify.
SortedOrders(S, keys) ==
    {s \in [1..Cardinality(S) -> S] :
        /\ \A i, j \in 1..Cardinality(S) : i # j => s[i] # s[j]
        /\ \A i \in 1..(Cardinality(S) - 1) : CompareBySort(s[i], s[i + 1], keys, 1) <= 0}

\* cursor.limit(n): 0 means no limit, a negative n means |n| in one batch.
StoreLimit(s, n) ==
    LET m == IF n = 0 THEN Len(s) ELSE IF n < 0 THEN -n ELSE n
    IN IF Len(s) <= m THEN s ELSE SubSeq(s, 1, m)

\* cursor.project(p): an exclusion projection drops the excluded fields.
Project(doc, projection) == [fld \in Fields |-> IF fld \in projection THEN Undef ELSE doc[fld]]

(***************************************************************************)
(* The arguments a caller can send.  They arrive as JSON, so lastValue is  *)
(* never a Date or an ObjectId; an argument left out is undefined.         *)
(***************************************************************************)
DEFAULT_PAGE_SIZE == 20

SortOf(keys) == [def |-> TRUE, keys |-> keys]
NoSort == [def |-> FALSE, keys |-> <<>>]
Sorts ==
    {NoSort, SortOf(<<>>), SortOf(<< <<"f", Num(1)>> >>), SortOf(<< <<"f", Num(-1)>> >>),
     SortOf(<< <<"f", Num(1)>>, <<"_id", Num(1)>> >>),
     SortOf(<< <<"f", Num(-1)>>, <<"_id", Num(-1)>> >>),
     SortOf(<< <<"f", Num(2)>> >>), SortOf(<< <<"f", AscText>> >>)}
Filters == {EmptyFilter, Leaf("$gt", "f", Num(0))}
Limits == {Undef, Num(-1), Num(0), Num(1), Num(1001)}
LastIds == {Undef, Str(1)} \cup {HexStr(k) : k \in Ids}
LastValues == {Undef, Num(0), Num(1), Str(0), IsoStr(1)}
Projections == {{}, {"_id"}, {"f"}}

\* Collection names: "orders" is the collection of the model; "" is empty;
\* "my orders" names no collection and has a character outside
\* [a-zA-Z0-9_.-].
OrdersName == Str(3)
EmptyName == Str(0)
SpacedName == Str(5)

\* validateCollectionName (helpers.ts 80-82): /^[a-zA-Z0-9_.-]+$/.
validateCollectionName(name) == name \in {Str(1), Str(2), Str(3), Str(4)}

\* Requests for the collection of the model, with every combination of the
\* other arguments, and first-page requests under the other names.
Requests ==
    [collectionName : {OrdersName}, filter : Filters, sort : Sorts, limit : Limits,
     lastId : LastIds, lastValue : LastValues, projection : Projections]
    \cup
    [collectionName : {EmptyName, SpacedName}, filter : {EmptyFilter},
     sort : {SortOf(<< <<"f", Num(1)>> >>)}, limit : {Undef, Num(1)}, lastId : {Undef},
     lastValue : {Undef}, projection : {{}}]

\* limit = DEFAULT_PAGE_SIZE when the argument is left out.
LimitOf(r) == IF r.limit.t = "undefined" THEN DEFAULT_PAGE_SIZE ELSE r.limit.n

(***************************************************************************)
(* Responses.  results and nextCursor are what JSON.stringify wrote.       *)
(***************************************************************************)
NoCursor == [isNull |-> TRUE, lastId |-> Undef, lastValue |-> Undef]
NoResp ==
    [kind |-> "none", isError |-> FALSE, message |-> "", results |-> <<>>,
     hasMore |-> FALSE, count |-> 0, nextCursor |-> NoCursor]
ErrorResp(msg) == [NoResp EXCEPT !.kind = "error", !.isError = TRUE, !.message = msg]
PageResp(results, hasMore, cursor) ==
    [kind |-> "page", isError |-> FALSE, message |-> "", results |-> results,
     hasMore |-> hasMore, count |-> Len(results), nextCursor |-> cursor]

SerializeDoc(doc) == [fld \in Fields |-> ToJSON(doc[fld])]

(***************************************************************************)
(* The handler's pure pieces.                                              *)
(***************************************************************************)
\* Object.keys(sort)[0] and sort[sortField]; undefined for an empty sort.
SortField(sort) == IF Len(sort.keys) > 0 THEN sort.keys[1][1] ELSE "undefined"
SortOrder(sort) == IF Len(sort.keys) > 0 THEN sort.keys[1][2] ELSE Undef

\* The range clause for a cursor: $gt when sortOrder === 1, $lt otherwise.
CursorClause(sortField, sortOrder, lastValue, objectId) ==
    LET cmp == IF sortOrder = Num(1) THEN "$gt" ELSE "$lt"
    IN OrOf(<< Leaf(cmp, sortField, lastValue),
               AndOf(<< Leaf("$eq", sortField, lastValue), Leaf(cmp, "_id", objectId) >>) >>)

\* A predicate builder that takes a cursor as given whenever both of its
\* parts are defined.
BuildPredicateDefinedTest(r) ==
    IF r.lastId # Undef /\ r.lastValue # Undef
    THEN IF ~r.sort.def
         THEN [outcome |-> "throw", filter |-> EmptyFilter]
         ELSE IF safeObjectId(r.lastId) = Null
         THEN [outcome |-> "invalidId", filter |-> EmptyFilter]
         ELSE [outcome |-> "ok",
               filter |-> AndOf(<< r.filter,
                                   CursorClause(SortField(r.sort), SortOrder(r.sort),
                                                r.lastValue, safeObjectId(r.lastId)) >>)]
    ELSE [outcome |-> "ok", filter |-> r.filter]

\* Lines 255-309: the filter given to find, an early error return for a
\* lastId that is no ObjectId, or a TypeError from Object.keys(undefined).
BuildPredicate(r) ==
    IF Truthy(r.lastId) /\ Truthy(r.lastValue)
    THEN IF ~r.sort.def
         THEN [outcome |-> "throw", filter |-> EmptyFilter]
         ELSE IF safeObjectId(r.lastId) = Null
         THEN [outcome |-> "invalidId", filter |-> EmptyFilter]
         ELSE [outcome |-> "ok",
               filter |-> AndOf(<< r.filter,
                                   CursorClause(SortField(r.sort), SortOrder(r.sort),
                                                r.lastValue, safeObjectId(r.lastId)) >>)]
    ELSE [outcome |-> "ok", filter |-> r.filter]

\* Lines 312-323: the query handed to the store.
BuildQuery(r, filter) ==
    [collection |-> r.collectionName, filter |-> filter, sort |-> r.sort.keys,
     projection |-> r.projection, limit |-> LimitOf(r) + 1]

NoQuery ==
    [collection |-> Undef, filter |-> EmptyFilter, sort |-> <<>>, projection |-> {}, limit |-> 0]

\* The documents of the collection a name refers to: a name that names no
\* collection reads as an empty one.
CollectionDocs(c, name) == IF name = OrdersName THEN c ELSE {}

\* db.collection(name) (line 253): whether the driver checks the name
\* itself depends on its version; a check refuses the empty name.
DriverNameCheck(name) == IF name = EmptyName THEN BOOLEAN ELSE {FALSE}

\* What toArray may resolve to for query q over collection c.
FetchResults(c, q) ==
    LET matching == {d \in CollectionDocs(c, q.collection) : Matches(d, q.filter)}
    IN {[i \in 1..Len(StoreLimit(s, q.limit)) |-> Project(StoreLimit(s, q.limit)[i], q.projection)] :
           s \in SortedOrders(matching, q.sort)}

\* A shaping step that does not pop the extra document.
ShapeKeepSentinel(r, fetched) ==
    LET limit == LimitOf(r)
        hasMore == Len(fetched) > limit
        results == fetched
        hasLast == Len(results) > 0
        lastDocument == results[Len(results)]
    IN IF hasLast /\ hasMore
       THEN IF ~r.sort.def \/ lastDocument["_id"] = Undef
            THEN [outcome |-> "throw", resp |-> NoResp]
            ELSE [outcome |-> "ok",
                  resp |-> PageResp([i \in 1..Len(results) |-> SerializeDoc(results[i])], hasMore,
                                    [isNull |-> FALSE,
                                     lastId |-> ToJSON(lastDocument["_id"]),
                                     lastValue |-> ToJSON(GetField(lastDocument, SortField(r.sort)))])]
       ELSE [outcome |-> "ok",
             resp |-> PageResp([i \in 1..Len(results) |-> SerializeDoc(results[i])], hasMore, NoCursor)]

\* Lines 329-364: trim the extra document, derive the cursor, build the
\* response.  Reading _id of a projected-out field, or the keys of an
\* undefined sort, throws.
Shape(r, fetched) ==
    LET limit == LimitOf(r)
        hasMore == Len(fetched) > limit
        results == IF hasMore /\ Len(fetched) > 0
                   THEN SubSeq(fetched, 1, Len(fetched) - 1) ELSE fetched
        hasLast == Len(results) > 0
        lastDocument == results[Len(results)]
    IN IF hasLast /\ hasMore
       THEN IF ~r.sort.def \/ lastDocument["_id"] = Undef
            THEN [outcome |-> "throw", resp |-> NoResp]
            ELSE [outcome |-> "ok",
                  resp |-> PageResp([i \in 1..Len(results) |-> SerializeDoc(results[i])], hasMore,
                                    [isNull |-> FALSE,
                                     lastId |-> ToJSON(lastDocument["_id"]),
                                     lastValue |-> ToJSON(GetField(lastDocument, SortField(r.sort)))])]
       ELSE [outcome |-> "ok",
             resp |-> PageResp([i \in 1..Len(results) |-> SerializeDoc(results[i])], hasMore, NoCursor)]

\* A handler whose try block starts only after `await getDb()`.
TryCoversAfterGetDb(stage) == stage \in {"build", "toArray", "shape"}

\* The stages of the handler that lie inside its try block (lines 250-365).
TryCovers(stage) == stage \in {"getDb", "build", "toArray", "shape"}

(***************************************************************************)
(* State.                                                                  *)
(*   coll        the documents of the collection                          *)
(*   mongoClient the module-level client: "null", "created" (constructed,  *)
(*               connect not completed) or "connected"                    *)
(*   pc          where the handler is: "idle", "connect" (awaiting         *)
(*               mongoClient.connect()), "getDb" (awaiting the client that *)
(*               already exists), "toArray" (awaiting the fetch), "done"   *)
(*   req         the arguments of the request being served                *)
(*   query       the query handed to the store by this request            *)
(*   storeCalls  the number of fetches this request has issued            *)
(*   resp        the result returned to the caller                        *)
(*   failure     the stage at which this request threw, or "none"         *)
(*   uncaught    an exception has left the handler                        *)
(*   chain       the request is a first page or follows one by nextCursor *)
(*   pages       the _id values returned so far along the chain           *)
(*   fetchedLen  the number of documents toArray resolved with            *)
(*   lastTool    the last other tool or resource of the server that ran    *)
(*               and whether it ended in an error                         *)
(* Two paginated-query handlers running at once (they share coll and       *)
(* mongoClient):                                                           *)
(*   cpc, creq, cquery, cresp   pc, req, query and resp of each handler    *)
(* The tools derived from BaseTool:                                        *)
(*   db          this.db of the tool: "null" or "connected"                *)
(*   tpc         "idle", "running" (awaiting a database call) or "done"    *)
(*   tin         the input execute was called with                        *)
(*   dbCalls     the database calls this execute has issued, in order      *)
(*   tresp       the ToolResponse execute returned                        *)
(* What happens around a request:                                          *)
(*   stable      the documents that are in the collection, untouched,      *)
(*               since the first page of the chain was requested           *)
(*   writes      the number of writes by other clients since then          *)
(*   cancelled   the caller has abandoned the request being served         *)
(* The life of the process (main, shutdown, closeMongo):                   *)
(*   mainPc          where main is: "start", "connect" (awaiting           *)
(*                   connectToMongo), "running", "closing" (its catch      *)
(*                   block awaiting closeMongo)                            *)
(*   isShuttingDown  the module-level flag of shutdown                     *)
(*   shutdownPc      where shutdown is: "idle", "closing" (awaiting        *)
(*                   closeMongo), "done"                                   *)
(*   closeMongoCalls the number of times closeMongo has been invoked       *)
(*   signals         the number of signals delivered                       *)
(*   exited          "no", or the code process.exit was called with        *)
(***************************************************************************)
VARIABLES coll, mongoClient, pc, req, query, storeCalls, resp, failure, uncaught, chain, pages,
          fetchedLen, lastTool, cpc, creq, cquery, cresp, db, tpc, tin, dbCalls, tresp,
          stable, writes, cancelled, mainPc, isShuttingDown, shutdownPc, closeMongoCalls,
          signals, exited

envVars == <<stable, writes, cancelled>>
lifeVars == <<mainPc, isShuttingDown, shutdownPc, closeMongoCalls, signals, exited>>

\* The variables a single paginated-query handler never touches.
otherVars == <<cpc, creq, cquery, cresp, db, tpc, tin, dbCalls, tresp, lifeVars>>

vars ==
    <<coll, mongoClient, pc, req, query, storeCalls, resp, failure, uncaught, chain, pages,
      fetchedLen, lastTool, envVars, otherVars>>

Collections == {{Doc(k, vals[k]) : k \in 1..size} : size \in 0..MaxDocs, vals \in [Ids -> DocValues]}

InitRequest ==
    [collectionName |-> OrdersName, filter |-> EmptyFilter, sort |-> NoSort, limit |-> Undef, lastId |-> Undef,
     lastValue |-> Undef, projection |-> {}]

NoTool ==
    [name |-> "none", isError |-> FALSE, thrown |-> FALSE, count |-> 0, docs |-> {},
     values |-> {}]

\* The two handler invocations that run at once.
Handlers == {1, 2}

\* The tools derived from BaseTool and what execute receives: the
\* collection name (3 is "orders", which exists; 4 is "nope", which does
\* not) and the tool's own required argument (filter and update, document,
\* index or indexName), present or left out.
Tools ==
    {"find", "insertOne", "updateOne", "deleteOne", "createIndex", "dropIndex",
     "listIndexes", "listCollections"}
Payload == V("object", 0)
Mistyped == V("mistyped", 0)
ToolInputs ==
    {in \in [tool : Tools, collection : {Undef, Str(3), Str(4)},
             payload : {Undef, Payload, Mistyped}, upsert : BOOLEAN] :
        in.upsert => in.tool = "updateOne"}
NoToolInput == [tool |-> "find", collection |-> Undef, payload |-> Undef, upsert |-> FALSE]
NoToolResponse == [kind |-> "none", isError |-> FALSE, text |-> "", count |-> 0]

InitHandlers ==
    /\ coll \in Collections
    /\ mongoClient = "null"
    /\ pc = "idle"
    /\ req = InitRequest
    /\ query = NoQuery
    /\ storeCalls = 0
    /\ resp = NoResp
    /\ failure = "none"
    /\ uncaught = FALSE
    /\ chain = FALSE
    /\ pages = <<>>
    /\ fetchedLen = 0
    /\ lastTool = NoTool
    /\ cpc = [i \in Handlers |-> "idle"]
    /\ creq = [i \in Handlers |-> InitRequest]
    /\ cquery = [i \in Handlers |-> NoQuery]
    /\ cresp = [i \in Handlers |-> NoResp]
    /\ db = "null"
    /\ tpc = "idle"
    /\ tin = NoToolInput
    /\ dbCalls = <<>>
    /\ tresp = NoToolResponse
    /\ stable = coll
    /\ writes = 0
    /\ cancelled = FALSE
    /\ isShuttingDown = FALSE
    /\ shutdownPc = "idle"
    /\ closeMongoCalls = 0
    /\ signals = 0
    /\ exited = "no"

\* The handlers are studied in a server whose main() has returned.
Init ==
    /\ InitHandlers
    /\ mainPc = "running"

\* An exception thrown at a stage: the catch block turns it into an error
\* result when the stage lies inside the try block.
Throw(stage, msg) ==
    /\ failure' = stage
    /\ resp' = IF TryCovers(stage) THEN ErrorResp(msg) ELSE NoResp
    /\ uncaught' = ~TryCovers(stage)
    /\ pc' = "done"

\* The handler starts (line 249) and runs connectToMongo up to its await:
\* a client that exists is returned as it is, otherwise one is constructed
\* and connect() is awaited.
Begin(r, isChain, seen) ==
    /\ ~uncaught
    /\ req' = r
    /\ chain' = isChain
    /\ pages' = seen
    /\ pc' = IF mongoClient = "null" THEN "connect" ELSE "getDb"
    /\ mongoClient' = IF mongoClient = "null" THEN "created" ELSE mongoClient
    /\ query' = NoQuery
    /\ storeCalls' = 0
    /\ resp' = NoResp
    /\ failure' = "none"
    /\ fetchedLen' = 0
    /\ lastTool' = NoTool
    /\ stable' = IF isChain /\ seen # <<>> THEN stable ELSE coll
    /\ writes' = IF isChain /\ seen # <<>> THEN writes ELSE 0
    /\ cancelled' = FALSE
    /\ UNCHANGED <<coll, uncaught, otherVars>>

\* A caller sends a request with arguments of its choice.
PaginatedQuery ==
    /\ pc = "idle"
    /\ \E r \in Requests :
        Begin(r, r.lastId = Undef /\ r.lastValue = Undef, <<>>)

\* A caller repeats its request with lastId and lastValue read from the
\* nextCursor of the response it has received.
FollowCursor ==
    /\ pc = "done"
    /\ chain
    /\ resp.kind = "page"
    /\ resp.hasMore
    /\ ~resp.nextCursor.isNull
    /\ Len(pages) <= MaxSeen
    /\ Begin([req EXCEPT !.lastId = resp.nextCursor.lastId,
                         !.lastValue = resp.nextCursor.lastValue], TRUE, pages)

\* A handler that asks the store for a count before it fetches.
AfterGetDbWithCount ==
    LET b == BuildPredicate(req)
    IN CASE b.outcome = "throw" ->
              /\ Throw("build", "Error executing paginated query")
              /\ UNCHANGED <<query, storeCalls>>
         [] b.outcome = "invalidId" ->
              /\ resp' = ErrorResp("Invalid ObjectId format")
              /\ pc' = "done"
              /\ UNCHANGED <<query, storeCalls, failure, uncaught>>
         [] b.outcome = "ok" /\ ~SortAccepted(req.sort.keys) ->
              /\ Throw("build", "Error executing paginated query")
              /\ UNCHANGED <<query, storeCalls>>
         [] b.outcome = "ok" /\ SortAccepted(req.sort.keys) ->
              /\ query' = BuildQuery(req, b.filter)
              /\ storeCalls' = storeCalls + 2
              /\ pc' = "toArray"
              /\ UNCHANGED <<resp, failure, uncaught>>

\* Lines 252-326 once getDb has returned: build the predicate and either
\* return early, throw (Object.keys of an undefined sort, or query.sort on
\* a direction the driver rejects), or hand the query to the store and
\* await toArray.
AfterGetDb ==
    LET b == BuildPredicate(req)
    IN CASE b.outcome = "throw" ->
              /\ Throw("build", "Error executing paginated query")
              /\ UNCHANGED <<query, storeCalls>>
         [] b.outcome = "invalidId" ->
              /\ resp' = ErrorResp("Invalid ObjectId format")
              /\ pc' = "done"
              /\ UNCHANGED <<query, storeCalls, failure, uncaught>>
         [] b.outcome = "ok" /\ ~SortAccepted(req.sort.keys) ->
              /\ Throw("build", "Error executing paginated query")
              /\ UNCHANGED <<query, storeCalls>>
         [] b.outcome = "ok" /\ SortAccepted(req.sort.keys) ->
              /\ query' = BuildQuery(req, b.filter)
              /\ storeCalls' = storeCalls + 1
              /\ pc' = "toArray"
              /\ UNCHANGED <<resp, failure, uncaught>>

\* Line 253 and what follows: db.collection(collectionName) throws when
\* the driver refuses the name, otherwise the handler goes on.
DbCollection ==
    \E refused \in DriverNameCheck(req.collectionName) :
        IF refused
        THEN /\ Throw("build", "Error executing paginated query")
             /\ UNCHANGED <<query, storeCalls>>
        ELSE AfterGetDb

\* mongoClient.connect() resolves (line 37).
ConnectResolve ==
    /\ pc = "connect"
    /\ mongoClient' = "connected"
    /\ DbCollection
    /\ UNCHANGED <<coll, req, chain, pages, fetchedLen, lastTool, envVars, otherVars>>

\* mongoClient.connect() rejects: connectToMongo rethrows (lines 40-43) and
\* leaves the client it constructed in mongoClient.
ConnectReject ==
    /\ pc = "connect"
    /\ Throw("getDb", "Error executing paginated query")
    /\ UNCHANGED <<coll, mongoClient, req, query, storeCalls, chain, pages, fetchedLen, lastTool, envVars, otherVars>>

\* connectToMongo returned the existing client (line 32).
GetDbResolve ==
    /\ pc = "getDb"
    /\ DbCollection
    /\ UNCHANGED <<coll, mongoClient, req, chain, pages, fetchedLen, lastTool, envVars, otherVars>>

\* toArray resolves (line 326) with one of the orders the store may answer
\* in; the handler shapes the page and returns (lines 329-364).  The store
\* answers no query on an empty collection name.
ToArrayResolve ==
    /\ pc = "toArray"
    /\ query.collection # EmptyName
    /\ \E fetched \in FetchResults(coll, query) :
          LET sh == Shape(req, fetched)
          IN /\ fetchedLen' = Len(fetched)
             /\ IF sh.outcome = "throw"
                THEN /\ Throw("shape", "Error executing paginated query")
                     /\ UNCHANGED pages
                ELSE /\ resp' = sh.resp
                     /\ pc' = "done"
                     /\ pages' = IF chain
                                 THEN pages \o [i \in 1..Len(sh.resp.results) |-> sh.resp.results[i]["_id"]]
                                 ELSE pages
                     /\ UNCHANGED <<failure, uncaught>>
    /\ mongoClient' = "connected"
    /\ UNCHANGED <<coll, req, query, storeCalls, chain, lastTool, envVars, otherVars>>

\* toArray rejects: the store call fails for any reason.
ToArrayReject ==
    /\ pc = "toArray"
    /\ Throw("toArray", "Error executing paginated query")
    /\ UNCHANGED <<coll, mongoClient, req, query, storeCalls, chain, pages, fetchedLen, lastTool, envVars, otherVars>>

\* The result has been delivered; nothing of the request outlives it but
\* the module-level client.
Reply ==
    /\ pc = "done"
    /\ ~uncaught
    /\ pc' = "idle"
    /\ req' = InitRequest
    /\ query' = NoQuery
    /\ storeCalls' = 0
    /\ resp' = NoResp
    /\ failure' = "none"
    /\ chain' = FALSE
    /\ pages' = <<>>
    /\ fetchedLen' = 0
    /\ stable' = coll
    /\ writes' = 0
    /\ cancelled' = FALSE
    /\ UNCHANGED <<coll, mongoClient, uncaught, lastTool, otherVars>>

Next ==
    \/ PaginatedQuery
    \/ FollowCursor
    \/ ConnectResolve
    \/ ConnectReject
    \/ GetDbResolve
    \/ ToArrayResolve
    \/ ToArrayReject
    \/ Reply

Spec == Init /\ [][Next]_vars

(***************************************************************************)
(* Vocabulary of the properties.                                           *)
(***************************************************************************)
\* The request names a sort with at least one field and a limit >= 1, and
\* asks for whole documents.
PlainRequest == req.sort.def /\ Len(req.sort.keys) > 0 /\ LimitOf(req) >= 1 /\ req.projection = {}
PageDone == pc = "done" /\ resp.kind = "page"
Matching == {d \in CollectionDocs(coll, req.collectionName) : Matches(d, req.filter)}
\* The request's cursor was taken from document D: lastId and lastValue
\* are D's _id and D's primary sort value as a response prints them.
CursorAt(D) ==
    /\ req.lastId = ToJSON(D["_id"])
    /\ req.lastValue = ToJSON(GetField(D, SortField(req.sort)))
\* d comes strictly after D, or not before D, under the request's sort.
StrictlyAfter(D, d) == CompareBySort(D, d, req.sort.keys, 1) < 0
NotBefore(D, d) == d # D /\ CompareBySort(D, d, req.sort.keys, 1) <= 0
SamePrimary(d1, d2) ==
    BsonCompare(GetField(d1, SortField(req.sort)), GetField(d2, SortField(req.sort))) = 0
ResultIds == {resp.results[i]["_id"] : i \in 1..Len(resp.results)}
Occurrences(seq, x) == Cardinality({i \in 1..Len(seq) : seq[i] = x})
FirstPos(seq, x) == CHOOSE i \in 1..Len(seq) : seq[i] = x /\ \A j \in 1..(i - 1) : seq[j] # x
DocOfId(h) == CHOOSE d \in coll : ToJSON(d["_id"]) = h

\* C1: following nextCursor from a first page over an unchanged collection,
\* the pages put together never repeat a document, come in the order of the
\* sort, and once hasMore is false hold every matching document.
C1_NoGapNoDuplicate ==
    (PageDone /\ chain /\ PlainRequest) =>
        /\ \A i, j \in 1..Len(pages) : i # j => pages[i] # pages[j]
        /\ \A i \in 1..(Len(pages) - 1) :
              CompareBySort(DocOfId(pages[i]), DocOfId(pages[i + 1]), req.sort.keys, 1) <= 0
        /\ ~resp.hasMore => {pages[i] : i \in 1..Len(pages)} = {ToJSON(d["_id"]) : d \in Matching}

\* C2: in every successful response, for every limit and projection,
\* hasMore is true exactly when nextCursor is non-null and carries both a
\* lastId and a lastValue.
C2_MetadataConsistent ==
    PageDone =>
        (resp.hasMore <=>
            (/\ ~resp.nextCursor.isNull
             /\ resp.nextCursor.lastId # Undef
             /\ resp.nextCursor.lastValue # Undef))

\* C3: a request whose cursor was taken from matching document D never
\* returns D, and when documents follow D in the sort order its first
\* result is one that follows D immediately.
C3_IdempotentResume ==
    \A D \in coll :
        (PageDone /\ PlainRequest /\ Matches(D, req.filter) /\ CursorAt(D)) =>
            /\ ToJSON(D["_id"]) \notin ResultIds
            /\ (\E d \in Matching : StrictlyAfter(D, d)) =>
                  /\ Len(resp.results) > 0
                  /\ \E r \in Matching :
                        /\ ToJSON(r["_id"]) = resp.results[1]["_id"]
                        /\ NotBefore(D, r)
                        /\ \A e \in Matching : StrictlyAfter(D, e) => CompareBySort(r, e, req.sort.keys, 1) <= 0

\* C4: matching documents that share the primary sort value are each
\* returned at most once along a chain of pages, are all returned by the
\* time hasMore is false, and come in ascending _id order when the sort
\* names only the primary field.
C4_TieSiblings ==
    (PageDone /\ chain /\ PlainRequest) =>
        \A d1, d2 \in Matching :
            (d1 # d2 /\ SamePrimary(d1, d2)) =>
                /\ Occurrences(pages, ToJSON(d1["_id"])) <= 1
                /\ ~resp.hasMore => Occurrences(pages, ToJSON(d1["_id"])) = 1
                /\ (/\ Len(req.sort.keys) = 1
                    /\ Occurrences(pages, ToJSON(d1["_id"])) = 1
                    /\ Occurrences(pages, ToJSON(d2["_id"])) = 1
                    /\ IdOf(d1) < IdOf(d2)) =>
                       FirstPos(pages, ToJSON(d1["_id"])) < FirstPos(pages, ToJSON(d2["_id"]))

\* C5: the nextCursor of a response, read back by the caller, names the
\* _id of a document D of the collection and carries D's primary sort
\* value with its original type.
C5_CursorRoundTrip ==
    (PageDone /\ PlainRequest /\ ~resp.nextCursor.isNull) =>
        \E D \in coll :
            /\ safeObjectId(resp.nextCursor.lastId) = D["_id"]
            /\ resp.nextCursor.lastValue = GetField(D, SortField(req.sort))

\* C6: a request with an empty sort specification issues no fetch and ends
\* with an error result that carries no documents.
C6_MissingSortSpec ==
    (pc \in {"toArray", "done"} /\ req.sort.def /\ Len(req.sort.keys) = 0) =>
        /\ storeCalls = 0
        /\ pc = "done" => (resp.isError /\ resp.results = <<>>)

\* C7: a request whose lastId is "not-an-id", whatever lastValue comes
\* with it, issues no fetch and ends with an error result.
C7_MalformedCursor ==
    (pc \in {"toArray", "done"} /\ req.lastId = Str(1) /\ req.lastValue # Undef) =>
        /\ storeCalls = 0
        /\ pc = "done" => resp.isError

\* C8: a request whose limit is above 1000 issues no fetch and ends with an
\* error result.
C8_LimitExceeded ==
    (pc \in {"toArray", "done"} /\ LimitOf(req) > 1000) =>
        /\ storeCalls = 0
        /\ pc = "done" => resp.isError

\* C9: no exception leaves the handler; a request in which the connection,
\* the predicate construction, the fetch or the shaping of the page threw
\* ends with an error result that has a message and no documents.
C9_FailuresBecomeErrorResults ==
    /\ ~uncaught
    /\ (pc = "done" /\ failure # "none") =>
          /\ resp.kind = "error"
          /\ resp.isError
          /\ resp.message # ""
          /\ resp.results = <<>>
          /\ ~resp.hasMore
          /\ resp.nextCursor.isNull

\* C9 witness: the store fetch of a request failed and the request ended.
C9_Witness == pc = "done" /\ failure = "toArray" /\ resp.isError /\ storeCalls = 1

\* C10: when at most limit matching documents remain after the cursor
\* position (all matching documents when there is no cursor), the response
\* has hasMore = false and nextCursor = null and holds every one of them.
C10_LastPage ==
    /\ (PageDone /\ PlainRequest /\ req.lastId = Undef /\ req.lastValue = Undef
            /\ Cardinality(Matching) <= LimitOf(req)) =>
          /\ ~resp.hasMore
          /\ resp.nextCursor.isNull
          /\ \A d \in Matching : ToJSON(d["_id"]) \in ResultIds
    /\ \A D \in coll :
          (PageDone /\ PlainRequest /\ Matches(D, req.filter) /\ CursorAt(D)
              /\ Cardinality({d \in Matching : NotBefore(D, d)}) <= LimitOf(req)) =>
             /\ ~resp.hasMore
             /\ resp.nextCursor.isNull
             /\ \A d \in Matching : StrictlyAfter(D, d) => ToJSON(d["_id"]) \in ResultIds

\* C11: when the filter matches no document, the page has no results,
\* hasMore = false, count = 0 and nextCursor = null, for every limit.
C11_EmptyResult ==
    (PageDone /\ Matching = {}) =>
        /\ resp.results = <<>>
        /\ ~resp.hasMore
        /\ resp.count = 0
        /\ resp.nextCursor.isNull

\* C12: along a chain of pages with limit L, a page with hasMore = true has
\* exactly L documents and a cursor naming its last document, and the pages
\* put together are the first documents of the full sorted order.
C12_PageComposition ==
    (PageDone /\ chain /\ PlainRequest) =>
        /\ resp.hasMore =>
              /\ Len(resp.results) = LimitOf(req)
              /\ ~resp.nextCursor.isNull
              /\ resp.nextCursor.lastId = resp.results[Len(resp.results)]["_id"]
        /\ \E s \in SortedOrders(Matching, req.sort.keys) :
              /\ Len(pages) <= Len(s)
              /\ \A i \in 1..Len(pages) : pages[i] = ToJSON(s[i]["_id"])

\* C13: for a fixed collection and fixed arguments the handler has one
\* possible outcome: whatever the store answers to the query, the response
\* (results, their order, nextCursor) is the same.
C13_Determinism ==
    pc = "toArray" =>
        \A f1, f2 \in FetchResults(coll, query) : Shape(req, f1) = Shape(req, f2)

\* C17: the query handed to the store asks for limit + 1 documents sorted
\* by the primary field in its declared direction and then by _id
\* ascending.
C17_FetchOrder ==
    (pc = "toArray" /\ req.sort.def /\ Len(req.sort.keys) > 0) =>
        /\ query.limit = LimitOf(req) + 1
        /\ query.sort = << req.sort.keys[1], <<"_id", Num(1)>> >>

\* C18: for every limit >= 1 a page holds at most limit documents, count is
\* the number of results, and hasMore is true exactly when the store
\* answered with limit + 1 documents.
C18_SentinelNeverReturned ==
    (PageDone /\ LimitOf(req) >= 1) =>
        /\ Len(resp.results) <= LimitOf(req)
        /\ resp.count = Len(resp.results)
        /\ resp.hasMore <=> (fetchedLen = LimitOf(req) + 1)

\* C18 witness: the store answered with limit + 1 documents and the page
\* holds limit of them.
C18_Witness ==
    /\ PageDone
    /\ LimitOf(req) >= 1
    /\ fetchedLen = LimitOf(req) + 1
    /\ resp.hasMore
    /\ Len(resp.results) = LimitOf(req)

\* C19: with no cursor in the request the predicate handed to the store
\* is the caller's filter itself; with a cursor (lastId and lastValue both
\* given) it is $and of the caller's filter and the range clause; every
\* document the predicate admits satisfies the caller's filter; the
\* request's filter is the same from the start of the handler to its end.
C19_PredicateComposition ==
    /\ [](pc = "toArray" =>
            /\ (req.lastId # Undef /\ req.lastValue # Undef) =>
                  query.filter = AndOf(<< req.filter,
                                          CursorClause(SortField(req.sort), SortOrder(req.sort),
                                                       req.lastValue, safeObjectId(req.lastId)) >>)
            /\ (req.lastId = Undef /\ req.lastValue = Undef) => query.filter = req.filter
            /\ \A d \in coll : Matches(d, query.filter) => Matches(d, req.filter))
    /\ [][(pc \in {"connect", "getDb", "toArray"}) => ((req').filter = (req.filter))]_vars

\* C20: a request whose primary sort direction is neither 1 nor -1 issues
\* no fetch and ends with an error result.
C20_InvalidSortDirection ==
    (pc \in {"toArray", "done"} /\ req.sort.def /\ Len(req.sort.keys) > 0
        /\ SortOrder(req.sort) \notin {Num(1), Num(-1)}) =>
        /\ storeCalls = 0
        /\ pc = "done" => resp.isError

(***************************************************************************)
(* The other tools and resources of the server (index.ts 120-487) and the  *)
(* aggregate-query tool of the second server (mongodb-mcp-server.ts        *)
(* 68-100).  Each handler is one request against the one collection of     *)
(* the model; its answer is kept in lastTool.                              *)
(***************************************************************************)
ToolResult(name) == [NoTool EXCEPT !.name = name]

\* Aggregation stages: $match {f: {$gt: 0}}, $set {f: 1}, $out and $merge
\* into the collection the pipeline reads.
MatchStage == [op |-> "$match", filter |-> Leaf("$gt", "f", Num(0)), value |-> Undef]
SetStage == [op |-> "$set", filter |-> EmptyFilter, value |-> Num(1)]
OutStage == [op |-> "$out", filter |-> EmptyFilter, value |-> Undef]
MergeStage == [op |-> "$merge", filter |-> EmptyFilter, value |-> Undef]
Pipelines ==
    {<<>>, <<MatchStage>>, <<SetStage>>, <<MatchStage, OutStage>>, <<SetStage, MergeStage>>,
     <<OutStage, MatchStage>>}

\* The store rejects a pipeline whose $out or $merge is not the last stage.
PipelineAccepted(p) ==
    \A i \in 1..Len(p) : p[i].op \in {"$out", "$merge"} => i = Len(p)

\* The documents that leave stage i of the pipeline.
RECURSIVE Flow(_, _, _)
Flow(c, p, i) ==
    IF i = 0 THEN c
    ELSE LET before == Flow(c, p, i - 1)
         IN CASE p[i].op = "$match" -> {d \in before : Matches(d, p[i].filter)}
              [] p[i].op = "$set" -> {[d EXCEPT !["f"] = p[i].value] : d \in before}
              [] OTHER -> before

\* The collection after aggregate(pipeline).toArray(): $out replaces it by
\* the documents that reach the stage, $merge writes them over the
\* documents with the same _id.
AggregateEffect(c, p) ==
    IF p = <<>> \/ ~PipelineAccepted(p) THEN c
    ELSE LET reaching == Flow(c, p, Len(p) - 1)
         IN CASE p[Len(p)].op = "$out" -> reaching
              [] p[Len(p)].op = "$merge" ->
                   {d \in c : \A e \in reaching : e["_id"] # d["_id"]} \cup reaching
              [] OTHER -> c

\* The documents aggregate(pipeline).toArray() answers with: none after a
\* writing stage.
AggregateAnswer(c, p) ==
    IF p # <<>> /\ p[Len(p)].op \in {"$out", "$merge"} THEN {} ELSE Flow(c, p, Len(p))

\* inferSchema (lines 70-96): the type names seen under each key.
TypeName(v) ==
    CASE v.t = "oid" -> "ObjectId"
      [] v.t = "null" -> "null"
      [] v.t = "num" -> "number"
      [] v.t \in StringTags -> "string"
      [] OTHER -> "object"
inferSchema(documents) ==
    IF documents = {} THEN {<<"message", "No documents found to infer schema">>}
    ELSE {<<fld, TypeName(d[fld])>> : d \in documents, fld \in Fields}

\* A handler of index.ts from `await getDb()` to its return: the client is
\* created on first use; the store call succeeds, or connecting or the
\* call fails and the catch block answers (tools) or rethrows (resources).
ServerRequest(name, effect, answer, rethrows) ==
    /\ \E ok \in BOOLEAN :
          /\ mongoClient' = IF ok THEN "connected"
                            ELSE IF mongoClient = "null" THEN "created" ELSE mongoClient
          /\ coll' = IF ok THEN effect ELSE coll
          /\ lastTool' = IF ok THEN answer
                         ELSE [ToolResult(name) EXCEPT !.isError = ~rethrows, !.thrown = rethrows]
    /\ UNCHANGED <<pc, req, query, storeCalls, resp, failure, uncaught, chain, pages,
                   fetchedLen, envVars, otherVars>>

\* Resource "collections" (lines 120-141).
CollectionsResource ==
    /\ pc = "idle"
    /\ ServerRequest("collections", coll,
                     [ToolResult("collections") EXCEPT !.values = {"orders"}], TRUE)

\* Resource "collection-schema" (lines 144-170).
CollectionSchemaResource ==
    /\ pc = "idle"
    /\ ServerRequest("collection-schema", coll,
                     [ToolResult("collection-schema") EXCEPT !.values = inferSchema(coll)], TRUE)

\* Tool "query-collection" (lines 176-234): limit is applied when truthy;
\* which documents a limited find answers with is the store's choice.
QueryCollection ==
    /\ pc = "idle"
    /\ \E filter \in Filters, limit \in {Undef, Num(0), Num(1)} :
        LET found == {d \in coll : Matches(d, filter)}
        IN \E answer \in SUBSET found :
              /\ IF Truthy(limit)
                 THEN Cardinality(answer) = IF Cardinality(found) < limit.n
                                            THEN Cardinality(found) ELSE limit.n
                 ELSE answer = found
              /\ ServerRequest("query-collection", coll,
                               [ToolResult("query-collection") EXCEPT
                                   !.docs = {SerializeDoc(d) : d \in answer}], FALSE)

\* Tool "count-documents" (lines 380-414).
CountDocuments ==
    /\ pc = "idle"
    /\ \E filter \in Filters :
        ServerRequest("count-documents", coll,
                      [ToolResult("count-documents") EXCEPT
                          !.count = Cardinality({d \in coll : Matches(d, filter)})], FALSE)

\* Tool "distinct-values" (lines 416-451).
DistinctValues ==
    /\ pc = "idle"
    /\ \E field \in Fields, filter \in Filters :
        ServerRequest("distinct-values", coll,
                      [ToolResult("distinct-values") EXCEPT
                          !.values = {ToJSON(d[field]) : d \in {e \in coll : Matches(e, filter)}}],
                      FALSE)

\* Tool "aggregate" (lines 453-487): the pipeline goes to the store as the
\* caller gave it.
Aggregate ==
    /\ pc = "idle"
    /\ \E pipeline \in Pipelines :
        ServerRequest("aggregate", AggregateEffect(coll, pipeline),
                      IF PipelineAccepted(pipeline)
                      THEN [ToolResult("aggregate") EXCEPT
                               !.docs = {SerializeDoc(d) : d \in AggregateAnswer(coll, pipeline)}]
                      ELSE [ToolResult("aggregate") EXCEPT !.isError = TRUE],
                      FALSE)

\* The pipeline argument of aggregate-query is a text: not JSON, JSON that
\* is not an array, or the JSON of a pipeline.
PipelineTexts ==
    {[json |-> "invalid", stages |-> <<>>], [json |-> "object", stages |-> <<>>]}
        \cup {[json |-> "array", stages |-> p] : p \in Pipelines}

\* Tool "aggregate-query" (mongodb-mcp-server.ts 68-100): JSON.parse, the
\* array test, then aggregate on that server's own connected client.
AggregateQuery ==
    /\ pc = "idle"
    /\ \E text \in PipelineTexts, ok \in BOOLEAN :
          IF text.json = "array" /\ PipelineAccepted(text.stages) /\ ok
          THEN /\ coll' = AggregateEffect(coll, text.stages)
               /\ lastTool' = [ToolResult("aggregate-query") EXCEPT
                                  !.docs = {SerializeDoc(d) : d \in AggregateAnswer(coll, text.stages)}]
          ELSE /\ coll' = coll
               /\ lastTool' = [ToolResult("aggregate-query") EXCEPT !.isError = TRUE]
    /\ UNCHANGED <<mongoClient, pc, req, query, storeCalls, resp, failure, uncaught, chain,
                   pages, fetchedLen, envVars, otherVars>>

NextServer ==
    \/ Next
    \/ CollectionsResource
    \/ CollectionSchemaResource
    \/ QueryCollection
    \/ CountDocuments
    \/ DistinctValues
    \/ Aggregate
    \/ AggregateQuery

SpecServer == Init /\ [][NextServer]_vars

\* C14: no tool or resource of the server changes the contents of the
\* database, whatever its arguments, aggregation pipelines included.
C14_ReadOnlyServer == [][coll' = coll]_vars

(***************************************************************************)
(* The tools derived from BaseTool (tools/base/BaseTool.ts and the         *)
(* tools/mongodb classes).  execute runs from its call to each await; db   *)
(* is the Db the tool holds, set from outside by setDatabase.              *)
(***************************************************************************)
pageVars ==
    <<mongoClient, pc, req, query, storeCalls, resp, failure, uncaught, chain, pages,
      fetchedLen, lastTool, envVars, lifeVars>>
concVars == <<cpc, creq, cquery, cresp>>

\* count is the matchedCount, deletedCount or number of inserted documents
\* in the data of a success response.
SuccessResponse(text, count) ==
    [kind |-> "success", isError |-> FALSE, text |-> text, count |-> count]
ErrorResponse(text) == [kind |-> "error", isError |-> TRUE, text |-> text, count |-> 0]

\* The tool's own argument as the caller's filter {f: {$gt: 0}}, update
\* {$set: {f: 1}} and document {f: 1}.
ToolFilter == Leaf("$gt", "f", Num(0))
ToolValue == Num(1)

\* The Zod schemas: collection is z.string() in BaseMongoSchema, which
\* every tool's schema extends; insertOne, updateOne, deleteOne,
\* createIndex and dropIndex require their own argument, find takes an
\* optional filter, listIndexes and listCollections have no such key.
ValidInput(in) ==
    /\ in.collection.t \in StringTags
    /\ CASE in.tool \in {"insertOne", "updateOne", "deleteOne", "createIndex", "dropIndex"} ->
               in.payload = Payload
         [] in.tool = "find" -> in.payload \in {Undef, Payload}
         [] OTHER -> TRUE

\* An execute that takes its parameters without parsing them.
ParseOutcomeUnchecked(in) == "ok"

\* validateInput (BaseTool.ts 52-54): inputSchema.parse throws a ZodError
\* on input the schema rejects.
ParseOutcome(in) == IF ValidInput(in) THEN "ok" ELSE "ZodError"

\* Where execute goes once validateCollection has passed: the await it
\* reaches and the database call it issues.
AfterValidateCollection(tool) ==
    CASE tool \in {"updateOne", "deleteOne"} -> <<"validateDocument", "countDocuments">>
      [] tool = "dropIndex" -> <<"listIndexes", "listIndexes">>
      [] OTHER -> <<"operation", tool>>

\* The catch block of execute: createErrorResponse(formatError(error)).
ToolFails(text) ==
    /\ tresp' = ErrorResponse(text)
    /\ tpc' = "done"

\* execute is called: validateInput, the test of this.db, and the first
\* database call (listCollections, in validateCollection or as the
\* operation of the listCollections tool).
ToolExecute ==
    /\ tpc = "idle"
    /\ \E in \in ToolInputs :
          /\ in.tool = "insertOne" => Cardinality(coll) < MaxDocs
          /\ tin' = in
          /\ IF ParseOutcome(in) # "ok"
             THEN ToolFails(ParseOutcome(in)) /\ dbCalls' = <<>>
             ELSE IF db = "null"
             THEN ToolFails("Database not connected") /\ dbCalls' = <<>>
             ELSE /\ tpc' = IF in.tool = "listCollections" THEN "operation" ELSE "validateCollection"
                  /\ dbCalls' = <<"listCollections">>
                  /\ tresp' = NoToolResponse
    /\ UNCHANGED <<coll, db, pageVars, concVars>>

\* Issue the next database call and await it; a Db taken away meanwhile
\* makes the statement throw.
ToolProceeds(step) ==
    IF db = "null"
    THEN ToolFails("Database not connected") /\ UNCHANGED dbCalls
    ELSE /\ tpc' = step[1]
         /\ dbCalls' = Append(dbCalls, step[2])
         /\ UNCHANGED tresp

\* listCollections of validateCollection resolves (BaseTool.ts 78-87).
ValidateCollectionResolve ==
    /\ tpc = "validateCollection"
    /\ IF tin.collection # Str(3)
       THEN ToolFails("Collection does not exist") /\ UNCHANGED dbCalls
       ELSE ToolProceeds(AfterValidateCollection(tin.tool))
    /\ UNCHANGED <<coll, db, tin, pageVars, concVars>>

\* A validateDocument that does not look at the count.
ValidateDocumentResolveUnchecked ==
    /\ tpc = "validateDocument"
    /\ ToolProceeds(<<"operation", tin.tool>>)
    /\ UNCHANGED <<coll, db, tin, pageVars, concVars>>

\* countDocuments of validateDocument resolves (BaseTool.ts 89-98).
ValidateDocumentResolve ==
    /\ tpc = "validateDocument"
    /\ IF {d \in coll : Matches(d, ToolFilter)} = {}
       THEN ToolFails("Document not found") /\ UNCHANGED dbCalls
       ELSE ToolProceeds(<<"operation", tin.tool>>)
    /\ UNCHANGED <<coll, db, tin, pageVars, concVars>>

\* listIndexes of dropIndex resolves (DropIndexTool.ts 48-54): the index
\* named exists or it does not.
ListIndexesResolve ==
    /\ tpc = "listIndexes"
    /\ \E indexExists \in BOOLEAN :
          IF ~indexExists
          THEN ToolFails("Index does not exist") /\ UNCHANGED dbCalls
          ELSE ToolProceeds(<<"operation", tin.tool>>)
    /\ UNCHANGED <<coll, db, tin, pageVars, concVars>>

\* The tool's operation as the store performs it: the collection after it
\* and the count it reports.  insertOne adds the document under a fresh
\* _id; updateOne and deleteOne act on one matching document of the
\* store's choice, or on none; updateOne with upsert inserts when nothing
\* matches; the other tools write no document.
FreshDoc(c) == Doc(CHOOSE k \in 1..(Cardinality(c) + 1) : \A d \in c : IdOf(d) # k, ToolValue)
OperationEffects(c, in) ==
    LET matching == {d \in c : Matches(d, ToolFilter)}
    IN CASE in.tool = "insertOne" -> {[after |-> c \cup {FreshDoc(c)}, count |-> 1]}
         [] in.tool = "updateOne" /\ matching # {} ->
               {[after |-> (c \ {d}) \cup {[d EXCEPT !["f"] = ToolValue]}, count |-> 1] :
                   d \in matching}
         [] in.tool = "updateOne" /\ matching = {} ->
               {[after |-> IF in.upsert THEN c \cup {FreshDoc(c)} ELSE c, count |-> 0]}
         [] in.tool = "deleteOne" /\ matching # {} ->
               {[after |-> c \ {d}, count |-> 1] : d \in matching}
         [] OTHER -> {[after |-> c, count |-> 0]}

\* The tool's operation resolves; a write that the server did not
\* acknowledge makes execute throw.
OperationResolve ==
    /\ tpc = "operation"
    /\ \E effect \in OperationEffects(coll, tin), acknowledged \in BOOLEAN :
          /\ coll' = effect.after
          /\ tpc' = "done"
          /\ tresp' = IF tin.tool \in {"insertOne", "updateOne", "deleteOne"} /\ ~acknowledged
                      THEN ErrorResponse("Operation was not acknowledged by the server")
                      ELSE SuccessResponse(tin.tool, effect.count)
    /\ UNCHANGED <<db, tin, dbCalls, pageVars, concVars>>

\* The awaited database call rejects.
ToolCallReject ==
    /\ tpc \in {"validateCollection", "validateDocument", "listIndexes", "operation"}
    /\ ToolFails("MongoError")
    /\ UNCHANGED <<coll, db, tin, dbCalls, pageVars, concVars>>

\* setDatabase (BaseTool.ts 48-50), called from outside the tool.
SetDatabase ==
    /\ db' = IF db = "null" THEN "connected" ELSE "null"
    /\ UNCHANGED <<coll, tpc, tin, dbCalls, tresp, pageVars, concVars>>

\* The caller has the response.
ToolReply ==
    /\ tpc = "done"
    /\ tpc' = "idle"
    /\ tin' = NoToolInput
    /\ dbCalls' = <<>>
    /\ tresp' = NoToolResponse
    /\ UNCHANGED <<coll, db, pageVars, concVars>>

NextTools ==
    \/ ToolExecute
    \/ ValidateCollectionResolve
    \/ ValidateDocumentResolve
    \/ ListIndexesResolve
    \/ OperationResolve
    \/ ToolCallReject
    \/ SetDatabase
    \/ ToolReply

SpecTools == Init /\ [][NextTools]_vars

\* C16: a BaseTool-derived tool given input its schema rejects returns a
\* response with isError = true and makes no database call.
C16_ValidationBeforeDatabase ==
    (tpc # "idle" /\ ~ValidInput(tin)) =>
        /\ tpc = "done"
        /\ tresp.isError
        /\ dbCalls = <<>>

\* C16 witness: a tool holding a connected Db has rejected input that its
\* schema does not accept.
C16_Witness ==
    /\ tpc = "done"
    /\ db = "connected"
    /\ ~ValidInput(tin)
    /\ tresp = ErrorResponse("ZodError")
    /\ dbCalls = <<>>

(***************************************************************************)
(* Two paginated-query invocations in flight at once (index.ts 249-365),   *)
(* interleaved at their awaits.  mongoClient is the module-level variable  *)
(* they share; everything else is local to an invocation.                  *)
(***************************************************************************)
toolVars == <<db, tpc, tin, dbCalls, tresp>>
soloVars ==
    <<pc, req, query, storeCalls, resp, failure, uncaught, chain, pages, fetchedLen, lastTool,
      envVars, lifeVars>>

\* The requests the two callers choose from.
ConcRequests ==
    {r \in Requests :
        /\ r.projection = {}
        /\ r.limit = Num(1)
        /\ r.sort \in {SortOf(<< <<"f", Num(1)>> >>), SortOf(<< <<"f", Num(-1)>>, <<"_id", Num(-1)>> >>)}
        /\ r.collectionName = OrdersName
        /\ r.filter = EmptyFilter
        /\ <<r.lastId, r.lastValue>> \in {<<Undef, Undef>>, <<HexStr(1), Num(1)>>, <<Str(1), Num(1)>>}}

GenericError == ErrorResp("Error executing paginated query")

\* One variable for the locals of all invocations.
QuerySlotShared(i) == 1

\* paginatedFilter and query are declared with let inside the handler
\* (lines 255, 312): each invocation has its own.
QuerySlot(i) == i

\* Lines 252-326 for invocation i, once getDb has returned.
CAfterGetDb(i) ==
    LET b == BuildPredicate(creq[i])
    IN CASE b.outcome = "throw" \/ (b.outcome = "ok" /\ ~SortAccepted(creq[i].sort.keys)) ->
              /\ cresp' = [cresp EXCEPT ![i] = GenericError]
              /\ cpc' = [cpc EXCEPT ![i] = "done"]
              /\ UNCHANGED cquery
         [] b.outcome = "invalidId" ->
              /\ cresp' = [cresp EXCEPT ![i] = ErrorResp("Invalid ObjectId format")]
              /\ cpc' = [cpc EXCEPT ![i] = "done"]
              /\ UNCHANGED cquery
         [] OTHER ->
              /\ cquery' = [cquery EXCEPT ![QuerySlot(i)] = BuildQuery(creq[i], b.filter)]
              /\ cpc' = [cpc EXCEPT ![i] = "toArray"]
              /\ UNCHANGED cresp

\* An invocation starts (line 249) and runs connectToMongo up to its
\* await (lines 31-37).
CBegin ==
    \E i \in Handlers, r \in ConcRequests :
        /\ cpc[i] = "idle"
        /\ creq' = [creq EXCEPT ![i] = r]
        /\ cpc' = [cpc EXCEPT ![i] = IF mongoClient = "null" THEN "connect" ELSE "getDb"]
        /\ mongoClient' = IF mongoClient = "null" THEN "created" ELSE mongoClient
        /\ UNCHANGED <<coll, cquery, cresp, soloVars, toolVars>>

\* mongoClient.connect() resolves for the invocation that awaits it.
CConnectResolve ==
    \E i \in Handlers :
        /\ cpc[i] = "connect"
        /\ mongoClient' = "connected"
        /\ CAfterGetDb(i)
        /\ UNCHANGED <<coll, creq, soloVars, toolVars>>

\* mongoClient.connect() rejects (lines 40-43); the catch block of the
\* handler answers.
CConnectReject ==
    \E i \in Handlers :
        /\ cpc[i] = "connect"
        /\ cresp' = [cresp EXCEPT ![i] = GenericError]
        /\ cpc' = [cpc EXCEPT ![i] = "done"]
        /\ UNCHANGED <<coll, mongoClient, creq, cquery, soloVars, toolVars>>

\* connectToMongo returned the client another invocation has stored.
CGetDbResolve ==
    \E i \in Handlers :
        /\ cpc[i] = "getDb"
        /\ CAfterGetDb(i)
        /\ UNCHANGED <<coll, mongoClient, creq, soloVars, toolVars>>

\* toArray resolves for invocation i, which shapes its page and returns.
CToArrayResolve ==
    \E i \in Handlers :
        /\ cpc[i] = "toArray"
        /\ \E fetched \in FetchResults(coll, cquery[QuerySlot(i)]) :
              LET sh == Shape(creq[i], fetched)
              IN cresp' = [cresp EXCEPT ![i] = IF sh.outcome = "throw" THEN GenericError ELSE sh.resp]
        /\ cpc' = [cpc EXCEPT ![i] = "done"]
        /\ mongoClient' = "connected"
        /\ UNCHANGED <<coll, creq, cquery, soloVars, toolVars>>

\* toArray rejects for invocation i.
CToArrayReject ==
    \E i \in Handlers :
        /\ cpc[i] = "toArray"
        /\ cresp' = [cresp EXCEPT ![i] = GenericError]
        /\ cpc' = [cpc EXCEPT ![i] = "done"]
        /\ UNCHANGED <<coll, mongoClient, creq, cquery, soloVars, toolVars>>

\* The caller of invocation i has its response.
CReply ==
    \E i \in Handlers :
        /\ cpc[i] = "done"
        /\ cpc' = [cpc EXCEPT ![i] = "idle"]
        /\ creq' = [creq EXCEPT ![i] = InitRequest]
        /\ cresp' = [cresp EXCEPT ![i] = NoResp]
        /\ cquery' = [cquery EXCEPT ![QuerySlot(i)] = NoQuery]
        /\ UNCHANGED <<coll, mongoClient, soloVars, toolVars>>

NextConc ==
    \/ CBegin
    \/ CConnectResolve
    \/ CConnectReject
    \/ CGetDbResolve
    \/ CToArrayResolve
    \/ CToArrayReject
    \/ CReply

SpecConc == Init /\ [][NextConc]_vars

\* The responses request r can end with when it is the only request
\* running over collection c.
AloneResponses(c, r) ==
    LET b == BuildPredicate(r)
    IN {GenericError} \cup
       CASE b.outcome = "invalidId" -> {ErrorResp("Invalid ObjectId format")}
         [] b.outcome = "ok" /\ SortAccepted(r.sort.keys) ->
               {IF Shape(r, f).outcome = "throw" THEN GenericError ELSE Shape(r, f).resp :
                   f \in FetchResults(c, BuildQuery(r, b.filter))}
         [] OTHER -> {}

\* Every finished invocation holds a response it could produce alone.
AsWhenAlone ==
    \A i \in Handlers : cpc[i] = "done" => cresp[i] \in AloneResponses(coll, creq[i])

StageOrder ==
    {<<"idle", "connect">>, <<"idle", "getDb">>, <<"connect", "toArray">>,
     <<"getDb", "toArray">>, <<"connect", "done">>, <<"getDb", "done">>,
     <<"toArray", "done">>, <<"done", "idle">>, <<"done", "connect">>, <<"done", "getDb">>}

\* C21 as stated: every request, whatever its outcome, has performed
\* exactly one query against the store when it is done.
C21_ExactlyOneQueryEach == pc = "done" => storeCalls = 1

\* C21: a request performs at most one query against the store, exactly
\* one when it waits for or returns a page, and it moves through its
\* stages in order.
C21_SingleStoreCall ==
    /\ [](/\ storeCalls <= 1
          /\ pc = "toArray" => storeCalls = 1
          /\ PageDone => storeCalls = 1)
    /\ [][(pc' # pc) => (<<pc, pc'>> \in StageOrder)]_vars

\* C21 witness: a page has been returned after one query.
C21_Witness ==
    /\ PageDone
    /\ storeCalls = 1
    /\ Len(resp.results) > 0

\* C23: the outcome of shaping, hasMore, the number of results and
\* nextCursor are the same with the request's projection as without it,
\* for every answer of the store.
C23_ProjectionNeutral ==
    pc = "toArray" =>
        \A s \in SortedOrders({d \in coll : Matches(d, query.filter)}, query.sort) :
            LET full == StoreLimit(s, query.limit)
                plain == Shape([req EXCEPT !.projection = {}], full)
                shown == Shape(req, [i \in 1..Len(full) |-> Project(full[i], req.projection)])
            IN /\ shown.outcome = plain.outcome
               /\ shown.resp.hasMore = plain.resp.hasMore
               /\ shown.resp.count = plain.resp.count
               /\ shown.resp.nextCursor = plain.resp.nextCursor

\* A cursor that is not taken: one of lastId and lastValue is left out, or
\* lastValue is falsy.
PartialCursor(r) ==
    \/ (r.lastId = Undef) # (r.lastValue = Undef)
    \/ (r.lastValue # Undef /\ ~Truthy(r.lastValue))

OtherWriterDeletes ==
    /\ tpc # "idle"
    /\ \E d \in coll : coll' = coll \ {d}
    /\ UNCHANGED <<db, tpc, tin, dbCalls, tresp, pageVars, concVars>>

NextToolsRace ==
    \/ NextTools
    \/ OtherWriterDeletes

SpecToolsRace == Init /\ [][NextToolsRace]_vars

\* C29: when the pre-check of updateOne or deleteOne completes while no
\* document matches the filter, execute ends with an error response, no
\* further database call is issued and the collection is left as it is,
\* with or without upsert.
C29_NoWriteWithoutMatch ==
    [][(/\ tpc = "validateDocument"
        /\ tpc' # "validateDocument"
        /\ {d \in coll : Matches(d, ToolFilter)} = {})
       => (/\ tpc' = "done"
           /\ tresp'.isError
           /\ dbCalls' = dbCalls
           /\ coll' = coll)]_vars

\* C29 witness: updateOne with upsert has answered 'Document not found'
\* after the pre-check, with no updateOne call issued.
C29_Witness ==
    /\ tpc = "done"
    /\ tin.tool = "updateOne"
    /\ tin.upsert
    /\ tresp = ErrorResponse("Document not found")
    /\ dbCalls = <<"listCollections", "countDocuments">>

\* C30: a success response of deleteOne reports deletedCount = 1, and a
\* success response of updateOne without upsert reports matchedCount = 1.
C30_SuccessReportsOne ==
    (/\ tpc = "done"
     /\ tresp.kind = "success"
     /\ tin.tool = "deleteOne" \/ (tin.tool = "updateOne" /\ ~tin.upsert))
    => tresp.count = 1

\* C24: a request whose collection name is empty or does not match the
\* naming pattern issues no store call and ends with an error result.
C24_CollectionNameValidated ==
    (pc \in {"toArray", "done"} /\ ~validateCollectionName(req.collectionName)) =>
        /\ storeCalls = 0
        /\ pc = "done" => resp.isError

(***************************************************************************)
(* Other clients of the database write to the collection between two page  *)
(* fetches of a chain.                                                     *)
(***************************************************************************)
BetweenPages ==
    /\ pc = "done"
    /\ chain
    /\ resp.kind = "page"
    /\ resp.hasMore
    /\ PlainRequest
    /\ writes < MaxWrites

handlerVars ==
    <<mongoClient, pc, req, query, storeCalls, resp, failure, uncaught, chain, pages,
      fetchedLen, lastTool, otherVars>>

WriterDeletes ==
    /\ BetweenPages
    /\ \E d \in coll :
          /\ coll' = coll \ {d}
          /\ stable' = stable \ {d}
    /\ writes' = writes + 1
    /\ UNCHANGED <<cancelled, handlerVars>>

WriterInserts ==
    /\ BetweenPages
    /\ Cardinality(coll) <= MaxDocs
    /\ \E v \in DocValues :
          coll' = coll \cup {Doc(CHOOSE k \in 1..(MaxDocs + 1) : \A d \in coll : IdOf(d) # k, v)}
    /\ writes' = writes + 1
    /\ UNCHANGED <<stable, cancelled, handlerVars>>

NextWrites ==
    \/ Next
    \/ WriterDeletes
    \/ WriterInserts

SpecWrites == Init /\ [][NextWrites]_vars

\* C22: when a page of a chain is fetched after other clients have written
\* to the collection, the request made with the returned cursor does not
\* fail because of the cursor, no document that stayed in the collection
\* untouched has been returned twice, and if that page ends the chain every
\* such document that matches the filter has been returned exactly once.
C22_StableDocumentsOnce ==
    [][(writes > 0 /\ chain /\ PlainRequest /\ pc = "toArray" /\ pc' = "done"
            /\ failure' = "none") =>
         /\ resp'.kind = "page"
         /\ \A d \in stable : Occurrences(pages', ToJSON(d["_id"])) <= 1
         /\ ~resp'.hasMore =>
               \A d \in stable :
                   Matches(d, req.filter) => Occurrences(pages', ToJSON(d["_id"])) = 1]_vars

(***************************************************************************)
(* The caller abandons a request while its fetch is with the store.  The   *)
(* handler takes no abort signal (line 249), so nothing in it reacts.      *)
(***************************************************************************)
Cancel ==
    /\ pc = "toArray"
    /\ ~cancelled
    /\ cancelled' = TRUE
    /\ UNCHANGED <<coll, stable, writes, handlerVars>>

NextCancel ==
    \/ Next
    \/ Cancel

SpecCancel == Init /\ [][NextCancel]_vars

\* C25: once the caller has abandoned the request, the store call in
\* flight ends by being aborted; it does not resolve into a page that the
\* handler shapes and returns.
C25_CancellationPropagated ==
    [][(cancelled /\ pc = "toArray" /\ pc' = "done") => (failure' = "toArray")]_vars

(***************************************************************************)
(* Startup and shutdown (lines 641-674).  The process starts with main()   *)
(* not yet run; the signal handlers are registered before main() is        *)
(* called, and a signal is delivered between two steps of the event loop.  *)
(*   mainPc      "start", "connect" (awaiting connectToMongo, line 644),   *)
(*               "transport" (awaiting server.connect, line 648),          *)
(*               "running", "closing" (awaiting closeMongo in the catch    *)
(*               block, line 656), "closed" / "closeFailed"                *)
(*   shutdownPc  "idle", "closing" (awaiting closeMongo, line 668),        *)
(*               "closed" / "closeFailed" / "nothingToClose"               *)
(*   exited      "no", "0" or "1": the code given to process.exit          *)
(***************************************************************************)
InitBoot ==
    /\ InitHandlers
    /\ mainPc = "start"

bootVars ==
    <<coll, pc, req, query, storeCalls, resp, failure, uncaught, chain, pages, fetchedLen,
      lastTool, envVars, cpc, creq, cquery, cresp, db, tpc, tin, dbCalls, tresp>>

\* main() up to its first await: connectToMongo constructs the client
\* (lines 32-37).
MainStart ==
    /\ exited = "no"
    /\ mainPc = "start"
    /\ mongoClient' = IF mongoClient = "null" THEN "created" ELSE mongoClient
    /\ mainPc' = "connect"
    /\ UNCHANGED <<isShuttingDown, shutdownPc, closeMongoCalls, signals, exited, bootVars>>

\* The catch block of main (lines 654-658): closeMongo is called and
\* awaited, then the process exits with code 1.  closeMongo awaits
\* mongoClient.close() only when mongoClient is non-null (line 53).
MainCatch ==
    /\ closeMongoCalls' = closeMongoCalls + 1
    /\ IF mongoClient # "null"
         THEN mainPc' = "closing" /\ exited' = exited
         ELSE mainPc' = "closed" /\ exited' = "1"
    /\ UNCHANGED <<mongoClient, isShuttingDown, shutdownPc, signals, bootVars>>

MainConnectResolve ==
    /\ exited = "no"
    /\ mainPc = "connect"
    /\ mongoClient' = "connected"
    /\ mainPc' = "transport"
    /\ UNCHANGED <<isShuttingDown, shutdownPc, closeMongoCalls, signals, exited, bootVars>>

MainConnectReject ==
    /\ exited = "no"
    /\ mainPc = "connect"
    /\ MainCatch

MainTransportResolve ==
    /\ exited = "no"
    /\ mainPc = "transport"
    /\ mainPc' = "running"
    /\ UNCHANGED <<mongoClient, isShuttingDown, shutdownPc, closeMongoCalls, signals, exited,
                   bootVars>>

MainTransportReject ==
    /\ exited = "no"
    /\ mainPc = "transport"
    /\ MainCatch

\* mongoClient.close() settles for main's closeMongo (lines 54-60):
\* mongoClient is set to null only when it resolved; then process.exit(1).
MainCloseDone ==
    /\ exited = "no"
    /\ mainPc = "closing"
    /\ \E ok \in BOOLEAN :
          /\ mongoClient' = IF ok THEN "null" ELSE mongoClient
          /\ mainPc' = IF ok THEN "closed" ELSE "closeFailed"
    /\ exited' = "1"
    /\ UNCHANGED <<isShuttingDown, shutdownPc, closeMongoCalls, signals, bootVars>>

\* SIGINT, SIGTERM or SIGHUP: shutdown (lines 662-670) up to its await.
Signal ==
    /\ exited = "no"
    /\ mainPc # "start"
    /\ signals < MaxSignals
    /\ signals' = signals + 1
    /\ IF isShuttingDown
         THEN UNCHANGED <<isShuttingDown, shutdownPc, closeMongoCalls, exited>>
         ELSE /\ isShuttingDown' = TRUE
              /\ closeMongoCalls' = closeMongoCalls + 1
              /\ IF mongoClient # "null"
                   THEN shutdownPc' = "closing" /\ exited' = exited
                   ELSE shutdownPc' = "nothingToClose" /\ exited' = "0"
    /\ UNCHANGED <<mongoClient, mainPc, bootVars>>

\* mongoClient.close() settles for shutdown's closeMongo; process.exit(0).
ShutdownCloseDone ==
    /\ exited = "no"
    /\ shutdownPc = "closing"
    /\ \E ok \in BOOLEAN :
          /\ mongoClient' = IF ok /\ mongoClient # "null" THEN "null" ELSE mongoClient
          /\ shutdownPc' = IF ok THEN "closed" ELSE "closeFailed"
    /\ exited' = "0"
    /\ UNCHANGED <<mainPc, isShuttingDown, closeMongoCalls, signals, bootVars>>

NextShutdown ==
    \/ MainStart
    \/ MainConnectResolve
    \/ MainConnectReject
    \/ MainTransportResolve
    \/ MainTransportReject
    \/ MainCloseDone
    \/ Signal
    \/ ShutdownCloseDone

SpecShutdown == InitBoot /\ [][NextShutdown]_vars

\* C28: whatever signals arrive, closeMongo is invoked at most once, the
\* process does not exit while a close is still awaited, and after a close
\* that succeeded mongoClient is null.
C28_ShutdownIdempotent ==
    /\ closeMongoCalls <= 1
    /\ exited # "no" => (mainPc # "closing" /\ shutdownPc # "closing")
    /\ (shutdownPc = "closed" \/ mainPc = "closed") => mongoClient = "null"

====
